---- MODULE Spec2Model ----
(***************************************************************************)
(* A model of cardutil's message decoding:                                 *)
(*   cardutil/data_element_reader.py  _StrictBinaryIO, IpmMessageIterator, *)
(*                                    RDWIpmMessageIterator, BlockedReader *)
(*   cardutil/optimized_iso8583.py    the permissive field readers         *)
(* Bytes are naturals 0..255, byte strings are sequences of bytes, and a   *)
(* Python Optional is a sequence of length at most one: <<>> is None and   *)
(* <<v>> is the value v.                                                   *)
(***************************************************************************)
EXTENDS Integers, Sequences, FiniteSets, TLC

VARIABLES
    file,        \* the bytes of the source the iterator was constructed on
    pos,         \* the source's cursor (bytes already consumed)
    high,        \* the highest offset any read of the source has reached
    bit_config,  \* the field configuration: field number -> field details
    framing,     \* "plain": IpmMessageIterator, "rdw": RDWIpmMessageIterator,
                 \* "permissive": optimized_iso8583.create_data_element_reader
    phase,       \* "new" before __init__, then "ready" or "failed"
    readers,     \* data_element_readers, indexed 0..max_bit
    emitted,     \* the messages returned by __next__ so far, in order
    outcome,     \* how the last __next__ call ended
    calls,       \* the number of __next__ calls made
    start_pos,   \* the cursor when the last __next__ call began
    stream,      \* the messages the source was written from (input record)
    ending,      \* what follows those messages in the source (input record)
    blk_file,    \* BlockedReader: the bytes of the underlying block source
    blk_pos,     \* BlockedReader: the underlying source's cursor
    block_size,  \* BlockedReader: _block_size
    buffer,      \* BlockedReader: the contents of _buffer (a BytesIO)
    buf_pos,     \* BlockedReader: the position of _buffer
    returned,    \* BlockedReader: the bytes returned until a call returned empty
    drained,     \* BlockedReader: some read call has returned empty
    reads,       \* BlockedReader: the number of read calls made
    last_read,   \* BlockedReader: the last read call (its request and result)
    bitmap_arg,  \* the bitmap handed to a bitmap decoder or a field-reading step
    data_elements, \* what the last read_data_elements call returned, if it returned
    field_set,   \* the field numbers a bitmap was made from (input record)
    decoded,     \* what _determine_set_bit_indices returned, if it was called
    read_size,   \* the size asked of the last _StrictBinaryIO.read call
    read_data    \* what the last _StrictBinaryIO.read call returned, if it returned

iter_vars == <<file, pos, high, bit_config, framing, phase, readers, emitted,
               outcome, calls, start_pos, stream, ending>>
blk_vars == <<blk_file, blk_pos, block_size, buffer, buf_pos, returned, drained, reads,
              last_read>>
opt_vars == <<bitmap_arg, data_elements>>
unit_vars == <<field_set, decoded, read_size, read_data>>
vars == <<iter_vars, blk_vars, opt_vars, unit_vars>>

----------------------------------------------------------------------------
(* Bounds of the model *)

MaxMsgs == 2       \* complete messages written to a source
MaxPayload == 1    \* declared payload length of a written LLVAR/LLLVAR field
MaxCalls == 3      \* __next__ calls made on one iterator
MaxJunk == 2       \* bytes following a probed length prefix or an RDW sentinel
MaxBlocks == 2     \* physical blocks in a block source
MaxReads == 3      \* BlockedReader.read calls made on one reader
MaxRequest == 3    \* the largest size asked of BlockedReader.read
MaxSource == 3     \* bytes in a source read through _StrictBinaryIO on its own
MaxSize == 3       \* the largest size asked of _StrictBinaryIO.read on its own

----------------------------------------------------------------------------
(* Byte strings *)

Min(a, b) == IF a < b THEN a ELSE b
Max(a, b) == IF a < b THEN b ELSE a

None == <<>>
Some(v) == <<v>>

RECURSIVE Flatten(_)
Flatten(ss) == IF ss = <<>> THEN <<>> ELSE Head(ss) \o Flatten(Tail(ss))

\* io.BytesIO.read(size) at cursor p: up to size bytes, all of the rest when
\* size is negative; the cursor moves past what was returned.
FileRead(data, p, size) ==
    LET end == IF size < 0 THEN Len(data) ELSE Min(p + size, Len(data))
        e == Max(p, end)
    IN  [bytes |-> SubSeq(data, p + 1, e), pos |-> e]

\* A read that passes a short result on
StrictReadLax(data, p, size) ==
    LET r == FileRead(data, p, size)
    IN  [ok |-> TRUE, bytes |-> r.bytes, pos |-> r.pos]

\* A read that lets a result one byte short pass
StrictReadShortByOne(data, p, size) ==
    LET r == FileRead(data, p, size)
    IN  [ok |-> ~(Len(r.bytes) + 1 < size), bytes |-> r.bytes, pos |-> r.pos]

\* _StrictBinaryIO.read: EOFError when the source returns fewer bytes than asked.
StrictRead(data, p, size) ==
    LET r == FileRead(data, p, size)
    IN  [ok |-> ~(Len(r.bytes) < size), bytes |-> r.bytes, pos |-> r.pos]

\* A seek to the start of the source
SeekStart(offset) == 0

\* _StrictBinaryIO.seek(offset): the underlying seek(offset or 0, 0).
Seek(offset) == offset

----------------------------------------------------------------------------
(* Program constants *)

MTI_LENGTH == 4
BITMAP_LENGTH == 16
RDW_LENGTH == 4
LLVAR_PREFIX == 2
LLLVAR_PREFIX == 3

----------------------------------------------------------------------------
(* The bitmap *)

Pow2(k) == 2 ^ k

\* The test of bit j counted from the least significant bit
BitSetLsbFirst(byte, j) == (byte \div Pow2(j)) % 2 = 1

\* byte & (1 << (7 - j)) is nonzero
BitSet(byte, j) == (byte \div Pow2(7 - j)) % 2 = 1

RECURSIVE ByteBits(_, _, _)
\* The inner loop, for j in range(8), from j on
ByteBits(byte, i, j) ==
    IF j > 7 THEN <<>>
    ELSE (IF BitSet(byte, j) THEN <<i * 8 + j + 1>> ELSE <<>>) \o ByteBits(byte, i, j + 1)

RECURSIVE SetBitsFrom(_, _)
\* The outer loop, for i, byte in enumerate(bit_map), from i on
SetBitsFrom(bit_map, i) ==
    IF i >= Len(bit_map) THEN <<>>
    ELSE ByteBits(bit_map[i + 1], i, 0) \o SetBitsFrom(bit_map, i + 1)

\* _determine_set_bit_indices: for each byte i and bit j (most significant
\* first) that is set, i*8 + j + 1, in the order met.
DetermineSetBitIndices(bit_map) == SetBitsFrom(bit_map, 0)

----------------------------------------------------------------------------
(* int(length_bytes): Python's integer literal in base 10, as CPython reads  *)
(* it from a bytes object: ASCII whitespace around it, an optional sign, and *)
(* digits that single underscores may separate.                              *)

IsSpace(b) == b \in {9, 10, 11, 12, 13, 32}
IsDigit(b) == b \in 48..57

RECURSIVE SkipSpaces(_, _)
SkipSpaces(s, i) ==
    IF i <= Len(s) /\ IsSpace(s[i]) THEN SkipSpaces(s, i + 1) ELSE i

\* From index i (a digit), the end of the digit run and its value.
RECURSIVE ScanDigits(_, _, _)
ScanDigits(s, i, acc) ==
    IF i <= Len(s) /\ IsDigit(s[i]) THEN ScanDigits(s, i + 1, acc * 10 + (s[i] - 48))
    ELSE IF i < Len(s) /\ s[i] = 95 /\ IsDigit(s[i + 1]) THEN ScanDigits(s, i + 1, acc)
    ELSE [next |-> i, value |-> acc]

NotAnInt == [ok |-> FALSE, value |-> 0]

\* The literal's digits were scanned as d: only whitespace may follow them.
PyIntEnd(s, d, negative) ==
    IF SkipSpaces(s, d.next) # Len(s) + 1 THEN NotAnInt
    ELSE [ok |-> TRUE, value |-> IF negative THEN 0 - d.value ELSE d.value]

\* The literal's digits start at index i.
PyIntDigits(s, i, negative) ==
    IF ~(i <= Len(s) /\ IsDigit(s[i])) THEN NotAnInt
    ELSE PyIntEnd(s, ScanDigits(s, i, 0), negative)

\* The literal starts at index i with an optional '+' or '-'.
PyIntSign(s, i) ==
    IF i <= Len(s) /\ s[i] \in {43, 45} THEN PyIntDigits(s, i + 1, s[i] = 45)
    ELSE PyIntDigits(s, i, FALSE)

PyInt(s) == PyIntSign(s, SkipSpaces(s, 1))

----------------------------------------------------------------------------
(* The field readers of IpmMessageIterator.  A reader's result is          *)
(* [err, pos, value]: err is "none" or the failure raised.  The failures:  *)
(*   "EndOfStream"          EOFError("Unexpected end of file")             *)
(*   "InvalidLengthPrefix"  ValueError, the two length prefix messages     *)
(*   "LengthMismatch"       ValueError("Expected to read .. bytes of data")*)
(*   "IndexError"           list index out of range                        *)

Failed(err, p) == [err |-> err, pos |-> p, value |-> <<>>]
Done(p, v) == [err |-> "none", pos |-> p, value |-> v]

\* What a read r of the strict source gives a reader that returns it as is
ReadResult(r) == IF r.ok THEN Done(r.pos, r.bytes) ELSE Failed("EndOfStream", r.pos)

\* _create_fixed_width_reader: partial(self.file.read, length)
FixedWidthReader(data, p, length) == ReadResult(StrictRead(data, p, length))

\* reader, lines 198-205: the payload read came back as r2
VariablePayload(length, r2) ==
    IF ~r2.ok THEN Failed("EndOfStream", r2.pos)
    ELSE IF Len(r2.bytes) # length THEN Failed("LengthMismatch", r2.pos)
    ELSE Done(r2.pos, r2.bytes)

\* reader, lines 193-198: int(length_bytes) came back as n
VariableLength(data, r1, n) ==
    IF ~n.ok THEN Failed("InvalidLengthPrefix", r1.pos)
    ELSE VariablePayload(n.value, StrictRead(data, r1.pos, n.value))

\* reader, lines 186-194: the prefix read came back as r1
VariablePrefix(data, length, r1) ==
    IF ~r1.ok THEN Failed("EndOfStream", r1.pos)
    ELSE IF Len(r1.bytes) < length THEN Failed("InvalidLengthPrefix", r1.pos)
    ELSE VariableLength(data, r1, PyInt(r1.bytes))

\* _create_variable_length_reader(length).reader
VariableLengthReader(data, p, length) ==
    VariablePrefix(data, length, StrictRead(data, p, length))

\* Every reader run as a fixed-width reader of its length
CallReaderFixedOnly(data, p, reader) == FixedWidthReader(data, p, reader.length)

\* A reader of the index: [kind |-> "FIXED", length] or [kind |-> "VAR", length]
CallReader(data, p, reader) ==
    IF reader.kind = "FIXED" THEN FixedWidthReader(data, p, reader.length)
    ELSE VariableLengthReader(data, p, reader.length)

FieldTypes == {"FIXED", "LLVAR", "LLLVAR"}

MaxBit(config) == CHOOSE m \in DOMAIN config : \A k \in DOMAIN config : k <= m

\* _create_reader_index binding no reader to a field of unknown type
CreateReaderIndexLenient(config) ==
    [err |-> "none",
     index |-> [n \in 0..MaxBit(config) |->
                  IF n \notin DOMAIN config THEN None
                  ELSE IF config[n].field_type = "FIXED"
                       THEN Some([kind |-> "FIXED", length |-> config[n].field_length])
                  ELSE IF config[n].field_type = "LLVAR"
                       THEN Some([kind |-> "VAR", length |-> LLVAR_PREFIX])
                  ELSE IF config[n].field_type = "LLLVAR"
                       THEN Some([kind |-> "VAR", length |-> LLLVAR_PREFIX])
                  ELSE None]]

\* _create_reader_index: ValueError("Unknown field type") for a field type
\* that is none of the three, else the index 0..max_bit of bound readers.
CreateReaderIndex(config) ==
    IF \E k \in DOMAIN config : config[k].field_type \notin FieldTypes
    THEN [err |-> "InvalidFieldSpec", index |-> <<>>]
    ELSE [err |-> "none",
          index |-> [n \in 0..MaxBit(config) |->
                       IF n \notin DOMAIN config THEN None
                       ELSE IF config[n].field_type = "FIXED"
                            THEN Some([kind |-> "FIXED", length |-> config[n].field_length])
                       ELSE IF config[n].field_type = "LLVAR"
                            THEN Some([kind |-> "VAR", length |-> LLVAR_PREFIX])
                       ELSE Some([kind |-> "VAR", length |-> LLLVAR_PREFIX])]]

----------------------------------------------------------------------------
(* Reading one message *)

\* data_elements[bit_index] = read_data_element(), the reader having ended as r
StoreElement(st, bit_index, r) ==
    IF r.err # "none" THEN [err |-> r.err, pos |-> r.pos, elements |-> st.elements]
    ELSE [err |-> "none", pos |-> r.pos,
          elements |-> [st.elements EXCEPT ![bit_index] = Some(r.value)]]

\* One pass of the loop body of _read_data_elements for bit_index, from the
\* state st = [err, pos, elements]; a failure raised earlier ended the loop.
ReadElement(data, index, st, bit_index) ==
    IF st.err # "none" THEN st
    ELSE IF bit_index \notin DOMAIN index
    THEN [err |-> "IndexError", pos |-> st.pos, elements |-> st.elements]
    ELSE IF index[bit_index] = None THEN st
    ELSE StoreElement(st, bit_index, CallReader(data, st.pos, index[bit_index][1]))

\* The loop of _read_data_elements over the first n of set_bit_indices,
\* started in state init.
RECURSIVE ReadLoop(_, _, _, _, _)
ReadLoop(data, index, bits, n, init) ==
    IF n = 0 THEN init
    ELSE ReadElement(data, index, ReadLoop(data, index, bits, n - 1, init), bits[n])

ReadAll(data, index, set_bit_indices, init) ==
    ReadLoop(data, index, set_bit_indices, Len(set_bit_indices), init)

\* _read_data_elements with one element too few: [None] * max_bit
ReadDataElementsShort(data, index, p, bit_map) ==
    ReadAll(data, index, DetermineSetBitIndices(bit_map),
            [err |-> "none", pos |-> p,
             elements |-> [n \in 0..(Cardinality(DOMAIN index) - 2) |-> None]])

\* _read_data_elements
ReadDataElements(data, index, p, bit_map) ==
    ReadAll(data, index, DetermineSetBitIndices(bit_map),
            [err |-> "none", pos |-> p, elements |-> [n \in DOMAIN index |-> None]])

\* What _is_end_of_file answers after its read(1) r and its seek back
EndOfFileAnswer(current_position, r) ==
    [eof |-> ~r.ok, pos |-> Seek(current_position), high |-> r.pos]

\* _is_end_of_file without the seek back
IsEndOfFileNoRestore(data, p) ==
    [eof |-> ~StrictRead(data, p, 1).ok, pos |-> Min(p + 1, Len(data)),
     high |-> Min(p + 1, Len(data))]

\* _is_end_of_file: tell, read(1), and seek back on every path.  True when
\* the read raised EOFError, None (false) otherwise.
IsEndOfFile(data, p) == EndOfFileAnswer(p, StrictRead(data, p, 1))

NoMessage == <<>>

\* The result of a __next__ call: outcome is "message", "stop" (StopIteration)
\* or the failure raised; message is the IpmMessage returned, if any.  h is
\* the highest offset the call's reads reached.
Result(o, p, h, m) == [outcome |-> o, pos |-> p, high |-> h, message |-> m]

\* __next__, line 138: _read_data_elements ended as d
IpmNextElements(h, m, b, d) ==
    IF d.err # "none" THEN Result(d.err, d.pos, Max(h, d.pos), NoMessage)
    ELSE Result("message", d.pos, Max(h, d.pos),
                Some([mti |-> m.bytes, bitmap |-> b.bytes, data_elements |-> d.elements]))

\* __next__, lines 136-137: the bitmap read came back as b
IpmNextBitmap(data, index, h, m, b) ==
    IF ~b.ok THEN Result("EndOfStream", b.pos, Max(h, b.pos), NoMessage)
    ELSE IpmNextElements(h, m, b, ReadDataElements(data, index, b.pos, b.bytes))

\* __next__ taking a short mti for the end of the sequence
IpmNextMtiSoft(data, index, h, m) ==
    IF ~m.ok THEN Result("stop", m.pos, Max(h, m.pos), NoMessage)
    ELSE IpmNextBitmap(data, index, h, m, StrictRead(data, m.pos, BITMAP_LENGTH))

\* __next__, lines 135-136: the mti read came back as m
IpmNextMti(data, index, h, m) ==
    IF ~m.ok THEN Result("EndOfStream", m.pos, Max(h, m.pos), NoMessage)
    ELSE IpmNextBitmap(data, index, h, m, StrictRead(data, m.pos, BITMAP_LENGTH))

\* __next__, lines 132-135: _is_end_of_file answered e
IpmNextPeeked(data, index, e) ==
    IF e.eof THEN Result("stop", e.pos, e.high, NoMessage)
    ELSE IpmNextMti(data, index, e.high, StrictRead(data, e.pos, MTI_LENGTH))

\* IpmMessageIterator.__next__
IpmNext(data, index, p) == IpmNextPeeked(data, index, IsEndOfFile(data, p))

RECURSIVE FromBytesBig(_)
\* int.from_bytes(raw, byteorder='big')
FromBytesBig(raw) ==
    IF raw = <<>> THEN 0
    ELSE FromBytesBig(SubSeq(raw, 1, Len(raw) - 1)) * 256 + raw[Len(raw)]

\* The result r of a call that read up to offset h before it
After(h, r) == Result(r.outcome, r.pos, Max(h, r.high), r.message)

\* RDW __next__ looking ahead for the end of file before it tests the word
RdwNextWordPeeks(data, index, raw_length) ==
    IF ~raw_length.ok
    THEN Result("EndOfStream", raw_length.pos, raw_length.pos, NoMessage)
    ELSE IF FromBytesBig(raw_length.bytes) = 0 \/ IsEndOfFile(data, raw_length.pos).eof
    THEN Result("stop", raw_length.pos, IsEndOfFile(data, raw_length.pos).high, NoMessage)
    ELSE After(raw_length.pos, IpmNext(data, index, raw_length.pos))

\* RDW __next__, lines 232-237: the read of the word came back as raw_length
RdwNextWord(data, index, raw_length) ==
    IF ~raw_length.ok
    THEN Result("EndOfStream", raw_length.pos, raw_length.pos, NoMessage)
    ELSE IF FromBytesBig(raw_length.bytes) = 0
    THEN Result("stop", raw_length.pos, raw_length.pos, NoMessage)
    ELSE After(raw_length.pos, IpmNext(data, index, raw_length.pos))

\* RDWIpmMessageIterator.__next__
RdwNext(data, index, p) == RdwNextWord(data, index, StrictRead(data, p, RDW_LENGTH))

----------------------------------------------------------------------------
(* optimized_iso8583: the permissive field readers.  They read the file as *)
(* it is (a short read is no failure), and a reader's value is an Optional: *)
(* None, or the bytes read.  int()'s own ValueError is "ValueError".        *)

\* _create_fixed_width_reader: partial(file.read, length); r is what it read
OptReadResult(r) == Done(r.pos, Some(r.bytes))

OptFixedWidthReader(data, p, length) == OptReadResult(FileRead(data, p, length))

\* reader, lines 16-17: int(length_bytes) came back as n
OptVariableLength(data, r1, n) ==
    IF ~n.ok THEN Failed("ValueError", r1.pos)
    ELSE OptReadResult(FileRead(data, r1.pos, n.value))

\* The reader failing on an empty prefix read
OptVariablePrefixStrict(data, r1) ==
    IF r1.bytes = <<>> THEN Failed("EndOfStream", r1.pos)
    ELSE OptVariableLength(data, r1, PyInt(r1.bytes))

\* reader, lines 13-16: the prefix read came back as r1
OptVariablePrefix(data, r1) ==
    IF r1.bytes = <<>> THEN Done(r1.pos, None)
    ELSE OptVariableLength(data, r1, PyInt(r1.bytes))

\* _create_variable_length_reader(file, length).reader
OptVariableLengthReader(data, p, length) ==
    OptVariablePrefix(data, FileRead(data, p, length))

\* Every reader run as a fixed-width reader of its length
OptCallReaderFixedOnly(data, p, reader) == OptFixedWidthReader(data, p, reader.length)

OptCallReader(data, p, reader) ==
    IF reader.kind = "FIXED" THEN OptFixedWidthReader(data, p, reader.length)
    ELSE OptVariableLengthReader(data, p, reader.length)

\* optimized_iso8583._create_reader_index
OptCreateReaderIndex(config) ==
    IF \E k \in DOMAIN config : config[k].field_type \notin FieldTypes
    THEN [err |-> "InvalidFieldSpec", index |-> <<>>]
    ELSE [err |-> "none",
          index |-> [n \in 0..MaxBit(config) |->
                       IF n \notin DOMAIN config THEN None
                       ELSE IF config[n].field_type = "FIXED"
                            THEN Some([kind |-> "FIXED", length |-> config[n].field_length])
                       ELSE IF config[n].field_type = "LLVAR"
                            THEN Some([kind |-> "VAR", length |-> LLVAR_PREFIX])
                       ELSE Some([kind |-> "VAR", length |-> LLLVAR_PREFIX])]]

\* optimized_iso8583._determine_set_bit_indices
OptDetermineSetBitIndices(bit_map) == SetBitsFrom(bit_map, 0)

\* data_elements[bit_index] = data_element, the reader having ended as r
OptStoreElement(st, bit_index, r) ==
    IF r.err # "none" THEN [err |-> r.err, pos |-> r.pos, elements |-> st.elements]
    ELSE [err |-> "none", pos |-> r.pos,
          elements |-> [st.elements EXCEPT ![bit_index] = r.value]]

\* One pass of the loop body of read_data_elements
OptReadElement(data, index, st, bit_index) ==
    IF st.err # "none" THEN st
    ELSE IF bit_index \notin DOMAIN index
    THEN [err |-> "IndexError", pos |-> st.pos, elements |-> st.elements]
    ELSE IF index[bit_index] = None THEN st
    ELSE OptStoreElement(st, bit_index, OptCallReader(data, st.pos, index[bit_index][1]))

\* The loop of read_data_elements over the first n of set_bits
RECURSIVE OptReadLoop(_, _, _, _, _)
OptReadLoop(data, index, bits, n, init) ==
    IF n = 0 THEN init
    ELSE OptReadElement(data, index, OptReadLoop(data, index, bits, n - 1, init), bits[n])

OptReadAll(data, index, set_bits, init) ==
    OptReadLoop(data, index, set_bits, Len(set_bits), init)

\* create_data_element_reader(file, bit_config).read_data_elements
OptReadDataElements(data, index, p, bit_map) ==
    OptReadAll(data, index, OptDetermineSetBitIndices(bit_map),
               [err |-> "none", pos |-> p, elements |-> [n \in DOMAIN index |-> None]])

----------------------------------------------------------------------------
(* BlockedReader *)

\* io.BytesIO.write(block) at position p: overwrites from p on, extends the
\* contents as needed, and leaves the position after what was written.
BufferWrite(buf, p, block) ==
    LET n == Max(Len(buf), p + Len(block))
    IN  [bytes |-> [i \in 1..n |->
                      IF i > p /\ i <= p + Len(block) THEN block[i - p]
                      ELSE IF i <= Len(buf) THEN buf[i] ELSE 0],
         pos |-> p + Len(block)]

\* _get_bytes_left_in_buffer: getbuffer().nbytes - tell()
BytesLeftInBuffer(buf, p) == Len(buf) - p

\* _fill_buffer_if_needed: the result is the state of the underlying source
\* and of the buffer, and the number of blocks pulled.
RECURSIVE FillBufferIfNeeded(_, _, _, _, _, _, _)
FillBufferIfNeeded(data, fp, bs, buf, bp, total_bytes, pulled) ==
    IF ~(BytesLeftInBuffer(buf, bp) < total_bytes)
    THEN [fpos |-> fp, buffer |-> buf, bpos |-> bp, pulled |-> pulled]
    ELSE LET block == FileRead(data, fp, bs)
         IN  IF block.bytes = <<>>
             THEN [fpos |-> block.pos, buffer |-> buf, bpos |-> bp, pulled |-> pulled]
             ELSE LET w == BufferWrite(buf, bp, SubSeq(block.bytes, 1, Min(Len(block.bytes), bs - 2)))
                  IN  FillBufferIfNeeded(data, block.pos, bs, w.bytes, w.pos,
                                         total_bytes, pulled + 1)

\* BlockedReader.read
BlockedRead(data, fp, bs, buf, bp, total_bytes) ==
    LET f == FillBufferIfNeeded(data, fp, bs, buf, bp, total_bytes, 0)
        r == FileRead(f.buffer, f.bpos, total_bytes)
    IN  [fpos |-> f.fpos, buffer |-> f.buffer, bpos |-> r.pos, bytes |-> r.bytes,
         pulled |-> f.pulled]

----------------------------------------------------------------------------
(* The sources the iterators are run on.  A source is written from a list  *)
(* of message descriptions [mti, bits, len]: the fields of bits are set in *)
(* the bitmap, and every LLVAR/LLLVAR field written declares len bytes.    *)

RECURSIVE BitmapByte(_, _, _)
\* Byte b (from 0) of the bitmap: bit 7 - j for each idx = b*8 + j + 1 given
BitmapByte(indices, b, j) ==
    IF j > 7 THEN 0
    ELSE (IF b * 8 + j + 1 \in indices THEN Pow2(7 - j) ELSE 0) + BitmapByte(indices, b, j + 1)

\* The tests' _make_bitmap: bit 7 - (idx-1) % 8 of byte (idx-1) // 8.
MakeBitmap(indices) == [b \in 1..BITMAP_LENGTH |-> BitmapByte(indices, b - 1, 0)]

\* b"1240", b"1241", ... as in the tests
Mti(k) == <<49, 50, 52, 48 + k>>

RECURSIVE Decimal(_, _)
\* n in decimal, zero-padded to width ASCII digits
Decimal(n, width) ==
    IF width = 0 THEN <<>> ELSE Decimal(n \div 10, width - 1) \o <<48 + (n % 10)>>

Fill(byte, n) == [i \in 1..n |-> byte]

\* The payload written for field n
Payload(config, n, len) ==
    IF config[n].field_type = "FIXED" THEN Fill(96 + n, config[n].field_length)
    ELSE Fill(96 + n, len)

PrefixLength(config, n) ==
    IF config[n].field_type = "LLVAR" THEN LLVAR_PREFIX
    ELSE IF config[n].field_type = "LLLVAR" THEN LLLVAR_PREFIX ELSE 0

\* The bytes written for field n: its length prefix, if any, and its payload
FieldBytes(config, n, len) ==
    Decimal(len, PrefixLength(config, n)) \o Payload(config, n, len)

RECURSIVE FieldsFrom(_, _, _)
FieldsFrom(config, d, n) ==
    IF n > MaxBit(config) THEN <<>>
    ELSE (IF n \in d.bits /\ n \in DOMAIN config THEN FieldBytes(config, n, d.len) ELSE <<>>)
         \o FieldsFrom(config, d, n + 1)

\* One message as the tests write it: mti + bitmap + the configured fields
\* whose bits are set, in ascending field order.
EncodeMessage(config, d) == d.mti \o MakeBitmap(d.bits) \o FieldsFrom(config, d, 1)

\* The IpmMessage a description stands for
ExpectedMessage(config, d) ==
    [mti |-> d.mti, bitmap |-> MakeBitmap(d.bits),
     data_elements |-> [n \in 0..MaxBit(config) |->
                          IF n \in d.bits /\ n \in DOMAIN config
                          THEN Some(Payload(config, n, d.len)) ELSE None]]

RECURSIVE ToBytesBig(_, _)
ToBytesBig(n, width) ==
    IF width = 0 THEN <<>> ELSE ToBytesBig(n \div 256, width - 1) \o <<n % 256>>

\* A message as it stands in the source: under RDW framing its Record
\* Descriptor Word, the message's length, precedes it.
Framed(fr, body) ==
    IF fr = "rdw" THEN ToBytesBig(Len(body), RDW_LENGTH) \o body ELSE body

RECURSIVE EncodeStream(_, _, _)
EncodeStream(config, fr, ds) ==
    IF ds = <<>> THEN <<>>
    ELSE Framed(fr, EncodeMessage(config, Head(ds))) \o EncodeStream(config, fr, Tail(ds))

Field(type, length) == [field_type |-> type, field_length |-> length]

\* The configuration of the tests (with a shorter FIXED field), a sparse one,
\* and one whose FIXED field names no field_length (get's default, 0).
Configs ==
    { (1 :> Field("FIXED", 2)) @@ (2 :> Field("LLVAR", 0)) @@ (3 :> Field("LLLVAR", 0)),
      (2 :> Field("LLVAR", 0)) @@ (4 :> Field("FIXED", 1)),
      (1 :> Field("FIXED", 0)) @@ (3 :> Field("LLLVAR", 0)) }

\* Field numbers a bitmap may set that the configuration does not hold
Strays(config) == ((1..(MaxBit(config) + 1)) \ DOMAIN config) \cup {128}

BitChoices(config) ==
    (SUBSET DOMAIN config)
    \cup {base \cup {k} : base \in {{}, DOMAIN config}, k \in Strays(config)}

FirstMessages(config) ==
    {[mti |-> Mti(0), bits |-> b, len |-> l] : b \in BitChoices(config), l \in 0..MaxPayload}

\* The message written after k others: every configured field, or (after an
\* even number) none
LaterMessages(config, k) ==
    {[mti |-> Mti(k), bits |-> IF k % 2 = 0 THEN DOMAIN config ELSE {},
      len |-> IF k % 2 = 0 THEN MaxPayload ELSE 0]}

RECURSIVE Streams(_, _)
\* The lists of at most n message descriptions
Streams(config, n) ==
    IF n = 0 THEN {<<>>}
    ELSE IF n = 1 THEN {<<>>} \cup {<<d>> : d \in FirstMessages(config)}
    ELSE LET shorter == Streams(config, n - 1)
         IN  shorter \cup {Append(ds, d) : ds \in {x \in shorter : Len(x) = n - 1},
                                           d \in LaterMessages(config, n - 1)}

\* The message a truncated or trailing ending is cut from
TailMessage(config) == [mti |-> Mti(9), bits |-> DOMAIN config, len |-> MaxPayload]

Ending(kind, cut, field, prefix, junk) ==
    [kind |-> kind, cut |-> cut, field |-> field, prefix |-> prefix, junk |-> junk]

VarFields(config) == {n \in DOMAIN config : config[n].field_type \in {"LLVAR", "LLLVAR"}}

\* The bytes a length prefix is probed with: '0' '1' '+' '-' ' ' '_' 'h'
PrefixBytes == {48, 49, 43, 45, 32, 95, 104}

Sentinel == ToBytesBig(0, RDW_LENGTH)

\* What may follow the complete messages of a source:
\*   clean     nothing
\*   partial   the first cut bytes of one more (framed) message
\*   sentinel  (RDW) the zero word, then junk bytes
\*   trailing  (RDW) the zero word, then one more framed message
\*   resync    a message whose one variable-length field has the length
\*             prefix 'hh' or 'hhh' and ends there, then one more message
Endings(config, fr) ==
    {Ending("clean", 0, 0, <<>>, 0)}
    \cup {Ending("resync", 0, n, Fill(104, PrefixLength(config, n)), 0) :
            n \in VarFields(config)}
    \cup {Ending("partial", t, 0, <<>>, 0) :
            t \in 1..(Len(Framed(fr, EncodeMessage(config, TailMessage(config)))) - 1)}
    \cup (IF fr = "rdw"
          THEN {Ending("sentinel", 0, 0, <<>>, j) : j \in 0..MaxJunk}
               \cup {Ending("trailing", 0, 0, <<>>, 0)}
          ELSE {})

\* A message holding the one variable-length field n, its length prefix any
\* bytes of PrefixBytes, followed by junk bytes.
Probes(config) ==
    UNION {{Ending("probe", 0, n, p, j) :
              p \in [1..PrefixLength(config, n) -> PrefixBytes], j \in 0..MaxJunk} :
           n \in VarFields(config)}

EndingBytes(config, fr, e) ==
    IF e.kind = "clean" THEN <<>>
    ELSE IF e.kind = "partial"
    THEN SubSeq(Framed(fr, EncodeMessage(config, TailMessage(config))), 1, e.cut)
    ELSE IF e.kind = "sentinel" THEN Sentinel \o Fill(120, e.junk)
    ELSE IF e.kind = "trailing"
    THEN Sentinel \o Framed(fr, EncodeMessage(config, TailMessage(config)))
    ELSE IF e.kind = "resync"
    THEN Framed(fr, Mti(8) \o MakeBitmap({e.field}) \o e.prefix)
         \o Framed(fr, EncodeMessage(config, TailMessage(config)))
    ELSE Framed(fr, Mti(9) \o MakeBitmap({e.field}) \o e.prefix \o Fill(120, e.junk))

\* What the permissive reader is run on: the first cut bytes of the fields
\* of one message, or a probed length prefix and junk bytes
FieldSource(config, d, e) ==
    IF e.kind = "cut" THEN SubSeq(FieldsFrom(config, d, 1), 1, e.cut)
    ELSE e.prefix \o Fill(120, e.junk)

SourceBytes(config, fr, ds, e) ==
    IF fr = "permissive" THEN FieldSource(config, ds[1], e)
    ELSE EncodeStream(config, fr, ds) \o EndingBytes(config, fr, e)

\* The bitmap read_data_elements is called with
ArgumentBitmap(fr, ds) == IF fr = "permissive" THEN MakeBitmap(ds[1].bits) ELSE <<>>

Framings == {"plain", "rdw"}

\* Configurations _create_reader_index rejects: the field of unknown type
\* is the last, the first, the middle one
BadConfigs ==
    { (1 :> Field("FIXED", 1)) @@ (2 :> Field("BINARY", 0)),
      (1 :> Field("BINARY", 0)) @@ (2 :> Field("LLVAR", 0)),
      (1 :> Field("FIXED", 1)) @@ (2 :> Field("", 0)) @@ (3 :> Field("LLLVAR", 0)) }

Input(c, fr, ds, e) == [config |-> c, framing |-> fr, stream |-> ds, ending |-> e]

FullMessage(config) == [mti |-> Mti(0), bits |-> DOMAIN config, len |-> MaxPayload]

\* The inputs: a configuration, a framing, and a source that is either some
\* messages and an ending, or at most one message and a probed length prefix.
InputsFor(c, fr) ==
    {Input(c, fr, ds, e) : ds \in Streams(c, MaxMsgs), e \in Endings(c, fr)}
    \cup {Input(c, fr, ds, e) : ds \in {<<>>, <<FullMessage(c)>>}, e \in Probes(c)}

\* The messages whose fields the permissive reader is run on
FieldMessages(config) ==
    {[mti |-> Mti(0), bits |-> b, len |-> l] :
        b \in BitChoices(config), l \in 0..(MaxPayload + 1)}

CutsOf(c, d) ==
    {Input(c, "permissive", <<d>>, Ending("cut", t, 0, <<>>, 0)) :
        t \in 0..Len(FieldsFrom(c, d, 1))}

PermissiveInputs(c) ==
    UNION {CutsOf(c, d) : d \in FieldMessages(c)}
    \cup {Input(c, "permissive", <<[mti |-> Mti(0), bits |-> {e.field}, len |-> 0]>>,
                 [e EXCEPT !.kind = "prefix"]) : e \in Probes(c)}

Inputs ==
    UNION {InputsFor(c, fr) : c \in Configs, fr \in Framings}
    \cup UNION {{Input(c, fr, <<>>, Ending("clean", 0, 0, <<>>, 0)),
                 Input(c, fr, <<FullMessage(c)>>, Ending("clean", 0, 0, <<>>, 0))} :
                c \in BadConfigs, fr \in Framings}
    \cup UNION {PermissiveInputs(c) : c \in Configs}
    \cup UNION {CutsOf(c, FullMessage(c)) : c \in BadConfigs}

----------------------------------------------------------------------------
(* The iterators *)

NoBlockedReader ==
    /\ blk_file = <<>> /\ blk_pos = 0 /\ block_size = 0 /\ buffer = <<>>
    /\ buf_pos = 0 /\ returned = <<>> /\ drained = FALSE /\ reads = 0
    /\ last_read = None

NoDecoding == field_set = {} /\ decoded = None

NoRead == read_size = 0 /\ read_data = None

NoUnit == NoDecoding /\ NoRead

NoReader == bitmap_arg = <<>> /\ data_elements = None

NoIterator ==
    /\ file = <<>> /\ pos = 0 /\ high = 0 /\ bit_config = <<>> /\ framing = "none"
    /\ phase = "none" /\ readers = <<>> /\ emitted = <<>> /\ outcome = "none"
    /\ calls = 0 /\ start_pos = 0 /\ stream = <<>> /\ ending = <<>>

Init ==
    /\ \E i \in Inputs :
          /\ bit_config = i.config
          /\ framing = i.framing
          /\ stream = i.stream
          /\ ending = i.ending
          /\ file = SourceBytes(i.config, i.framing, i.stream, i.ending)
          /\ bitmap_arg = ArgumentBitmap(i.framing, i.stream)
    /\ pos = 0
    /\ high = 0
    /\ phase = "new"
    /\ readers = <<>>
    /\ emitted = <<>>
    /\ outcome = "none"
    /\ calls = 0
    /\ start_pos = 0
    /\ data_elements = None
    /\ NoBlockedReader
    /\ NoUnit

\* IpmMessageIterator.__init__ (RDWIpmMessageIterator.__init__ calls it):
\* wraps the file and builds the reader index, or raises.
Construct ==
    /\ phase = "new" /\ framing \in Framings
    /\ LET r == CreateReaderIndex(bit_config)
       IN  /\ phase' = IF r.err = "none" THEN "ready" ELSE "failed"
           /\ outcome' = r.err
           /\ readers' = r.index
    /\ UNCHANGED <<file, pos, high, bit_config, framing, emitted, calls, start_pos,
                   stream, ending, blk_vars, opt_vars, unit_vars>>

\* The effect of one __next__ call that ended as r
Called(r) ==
    /\ pos' = r.pos
    /\ high' = Max(high, r.high)
    /\ outcome' = r.outcome
    /\ emitted' = emitted \o r.message
    /\ calls' = calls + 1
    /\ start_pos' = pos
    /\ UNCHANGED <<file, bit_config, framing, phase, readers, stream, ending, blk_vars,
                   opt_vars, unit_vars>>

\* next(iterator) on an IpmMessageIterator
IpmMessageIteratorNext ==
    /\ phase = "ready" /\ framing = "plain" /\ calls < MaxCalls
    /\ Called(IpmNext(file, readers, pos))

\* next(iterator) on an RDWIpmMessageIterator
RDWIpmMessageIteratorNext ==
    /\ phase = "ready" /\ framing = "rdw" /\ calls < MaxCalls
    /\ Called(RdwNext(file, readers, pos))

\* optimized_iso8583.create_data_element_reader: builds the reader index,
\* or raises
CreateDataElementReader ==
    /\ phase = "new" /\ framing = "permissive"
    /\ LET r == OptCreateReaderIndex(bit_config)
       IN  /\ phase' = IF r.err = "none" THEN "ready" ELSE "failed"
           /\ outcome' = r.err
           /\ readers' = r.index
    /\ UNCHANGED <<file, pos, high, bit_config, framing, emitted, calls, start_pos,
                   stream, ending, blk_vars, opt_vars, unit_vars>>

\* The effect of one read_data_elements call that ended as d
Returned(d) ==
    /\ pos' = d.pos
    /\ high' = Max(high, d.pos)
    /\ outcome' = d.err
    /\ data_elements' = IF d.err = "none" THEN Some(d.elements) ELSE None
    /\ calls' = calls + 1
    /\ start_pos' = pos
    /\ UNCHANGED <<file, bit_config, framing, phase, readers, emitted, stream, ending,
                   bitmap_arg, blk_vars, unit_vars>>

\* read_data_elements(bit_map) on the permissive reader
ReadDataElementsCall ==
    /\ phase = "ready" /\ framing = "permissive" /\ calls < MaxCalls
    /\ Returned(OptReadDataElements(file, readers, pos, bitmap_arg))

Next ==
    \/ Construct
    \/ IpmMessageIteratorNext
    \/ RDWIpmMessageIteratorNext
    \/ CreateDataElementReader
    \/ ReadDataElementsCall

Spec == Init /\ [][Next]_vars

----------------------------------------------------------------------------
(* The blocked reader on its own *)

BlockSizes == {3, 4}

\* N physical blocks of exactly bs bytes, each byte 1 or 2
BlockSources(bs) == UNION {[1..(n * bs) -> {1, 2}] : n \in 0..MaxBlocks}

BlockedInit ==
    /\ \E bs \in BlockSizes : block_size = bs /\ blk_file \in BlockSources(bs)
    /\ blk_pos = 0
    /\ buffer = <<>>
    /\ buf_pos = 0
    /\ returned = <<>>
    /\ drained = FALSE
    /\ reads = 0
    /\ last_read = None
    /\ NoIterator
    /\ NoReader
    /\ NoUnit

\* The number of bytes the read calls made so far have returned
Served == IF last_read = None THEN 0 ELSE last_read[1].before + Len(last_read[1].bytes)

\* reader.read(n) on a BlockedReader
BlockedReaderRead ==
    /\ reads < MaxReads
    /\ \E n \in 1..MaxRequest :
          LET r == BlockedRead(blk_file, blk_pos, block_size, buffer, buf_pos, n)
          IN  /\ blk_pos' = r.fpos
              /\ buffer' = r.buffer
              /\ buf_pos' = r.bpos
              /\ returned' = IF drained THEN returned ELSE returned \o r.bytes
              /\ drained' = (drained \/ r.bytes = <<>>)
              /\ last_read' = Some([total_bytes |-> n, bytes |-> r.bytes,
                                    pulled |-> r.pulled, before |-> Served])
    /\ reads' = reads + 1
    /\ UNCHANGED <<blk_file, block_size, iter_vars, opt_vars, unit_vars>>

BlockedNext == BlockedReaderRead

BlockedSpec == BlockedInit /\ [][BlockedNext]_vars

----------------------------------------------------------------------------
(* The bitmap decoders on their own *)

LastField == BITMAP_LENGTH * 8

\* The sets of field numbers up to last a bitmap is made from: none, every
\* one and two field numbers, every run of consecutive field numbers
FieldSets(last) ==
    {{}} \cup {{a, b} : a, b \in 1..last} \cup {lo..hi : lo, hi \in 1..last}

BitmapInit ==
    /\ \E F \in FieldSets(LastField) : field_set = F /\ bitmap_arg = MakeBitmap(F)
    /\ decoded = None
    /\ data_elements = None
    /\ NoIterator
    /\ NoBlockedReader
    /\ NoRead

\* IpmMessageIterator._determine_set_bit_indices(bit_map)
DetermineSetBitIndicesCall ==
    /\ decoded = None
    /\ decoded' = Some([by |-> "strict", set_bits |-> DetermineSetBitIndices(bitmap_arg)])
    /\ UNCHANGED <<iter_vars, blk_vars, bitmap_arg, data_elements, field_set, read_size,
                   read_data>>

\* optimized_iso8583._determine_set_bit_indices(bit_map)
OptDetermineSetBitIndicesCall ==
    /\ decoded = None
    /\ decoded' = Some([by |-> "optimized",
                        set_bits |-> OptDetermineSetBitIndices(bitmap_arg)])
    /\ UNCHANGED <<iter_vars, blk_vars, bitmap_arg, data_elements, field_set, read_size,
                   read_data>>

BitmapNext == DetermineSetBitIndicesCall \/ OptDetermineSetBitIndicesCall

BitmapSpec == BitmapInit /\ [][BitmapNext]_vars

----------------------------------------------------------------------------
(* The strict source on its own: reads and end-of-file lookaheads, in any   *)
(* order, on a _StrictBinaryIO over a BytesIO                               *)

Sources == UNION {[1..n -> {1, 2}] : n \in 0..MaxSource}

SourceInit ==
    /\ file \in Sources
    /\ pos = 0 /\ high = 0 /\ bit_config = <<>> /\ framing = "none"
    /\ phase = "none" /\ readers = <<>> /\ emitted = <<>> /\ outcome = "none"
    /\ calls = 0 /\ start_pos = 0 /\ stream = <<>> /\ ending = <<>>
    /\ NoRead
    /\ NoReader
    /\ NoDecoding
    /\ NoBlockedReader

\* The effect of a _StrictBinaryIO.read(n) that ended as r
ReadEnded(n, r) ==
    /\ pos' = r.pos
    /\ high' = Max(high, r.pos)
    /\ outcome' = IF r.ok THEN "returned" ELSE "EndOfStream"
    /\ read_size' = n
    /\ read_data' = IF r.ok THEN Some(r.bytes) ELSE None

\* self.file.read(n)
StrictBinaryIORead ==
    /\ calls < MaxCalls
    /\ \E n \in 0..MaxSize : ReadEnded(n, StrictRead(file, pos, n))
    /\ calls' = calls + 1
    /\ start_pos' = pos
    /\ UNCHANGED <<file, bit_config, framing, phase, readers, emitted, stream, ending,
                   blk_vars, opt_vars, field_set, decoded>>

\* The effect of an _is_end_of_file() that answered e
Peeked(e) ==
    /\ pos' = e.pos
    /\ high' = Max(high, e.high)
    /\ outcome' = IF e.eof THEN "eof" ELSE "more"

\* self._is_end_of_file()
IsEndOfFileCall ==
    /\ calls < MaxCalls
    /\ Peeked(IsEndOfFile(file, pos))
    /\ calls' = calls + 1
    /\ start_pos' = pos
    /\ UNCHANGED <<file, bit_config, framing, phase, readers, emitted, stream, ending,
                   blk_vars, opt_vars, unit_vars>>

SourceNext == StrictBinaryIORead \/ IsEndOfFileCall

SourceSpec == SourceInit /\ [][SourceNext]_vars

----------------------------------------------------------------------------
(* Claims *)

\* The logical stream of a block source: each block's first block_size - 2
\* bytes, in block order
Unwrapped(data, bs) ==
    Flatten([k \in 1..(Len(data) \div bs) |->
               SubSeq(data, (k - 1) * bs + 1, (k - 1) * bs + bs - 2)])

\* C1: once a BlockedReader.read call has returned empty, the bytes returned
\* by the calls so far, concatenated, are each block's first block_size - 2
\* bytes in block order, N * (block_size - 2) bytes in all.
C1_UnwrappedStream ==
    drained =>
        /\ returned = Unwrapped(blk_file, block_size)
        /\ Len(returned) = (Len(blk_file) \div block_size) * (block_size - 2)

\* The source holds exactly the messages of stream, each with every set bit
\* configured, and nothing else.
WellFormedSource ==
    /\ phase = "ready"
    /\ ending.kind = "clean"
    /\ \A k \in 1..Len(stream) : stream[k].bits \subseteq DOMAIN bit_config

ExpectedMessages(n) == [k \in 1..n |-> ExpectedMessage(bit_config, stream[k])]

\* C2: on a seekable source of K well-formed messages, the first K __next__
\* calls of an IpmMessageIterator return the K messages in their order (mti,
\* bitmap and elements), and every later call ends the sequence
\* (StopIteration) instead of failing.
C2_YieldsEachMessageThenStops ==
    (WellFormedSource /\ framing = "plain") =>
        /\ emitted = ExpectedMessages(Min(calls, Len(stream)))
        /\ (calls >= 1 /\ calls <= Len(stream)) => outcome = "message"
        /\ calls > Len(stream) => outcome = "stop"

C2_Witness ==
    /\ WellFormedSource /\ framing = "plain"
    /\ Len(stream) = 2 /\ calls = 3 /\ outcome = "stop" /\ Len(emitted) = 2
    /\ emitted[1] # emitted[2]

\* C3: a call that meets a message whose bitmap sets a field number the
\* configuration does not hold (a number beyond the largest configured one
\* included) ignores that bit: it raises nothing, consumes no byte for the
\* bit, and returns the message.
C3_UnconfiguredBitIgnored ==
    (/\ phase = "ready" /\ framing \in Framings /\ calls = 1 /\ Len(stream) >= 1
     /\ ~(stream[1].bits \subseteq DOMAIN bit_config)) =>
        /\ outcome = "message"
        /\ emitted = <<ExpectedMessage(bit_config, stream[1])>>
        /\ pos = Len(Framed(framing, EncodeMessage(bit_config, stream[1])))

\* Bit n of a bitmap: bit (n-1) % 8, most significant first, of byte (n-1) / 8
BitOn(bitmap, n) == (bitmap[((n - 1) \div 8) + 1] \div (2 ^ (7 - ((n - 1) % 8)))) % 2 = 1

AllDigits(s) == \A i \in 1..Len(s) : s[i] \in 48..57

\* The call that reads the probed length prefix has just been made
ProbeCalled == phase = "ready" /\ ending.kind = "probe" /\ calls = Len(stream) + 1

\* C5: an LLVAR/LLLVAR read whose prefix is not exactly prefixLen ASCII
\* digits (a sign, whitespace, any other byte) fails with
\* InvalidLengthPrefix and returns no field value.
C5_BadPrefixIsInvalidLengthPrefix ==
    (ProbeCalled /\ ~AllDigits(ending.prefix)) => outcome = "InvalidLengthPrefix"

RECURSIVE DigitsValue(_)
DigitsValue(s) ==
    IF s = <<>> THEN 0 ELSE DigitsValue(SubSeq(s, 1, Len(s) - 1)) * 10 + (s[Len(s)] - 48)

\* C6: an LLVAR/LLLVAR prefix declaring more payload bytes than the source
\* has left makes the read fail with LengthMismatch, and no message is
\* returned.
C6_ShortPayloadIsLengthMismatch ==
    (ProbeCalled /\ AllDigits(ending.prefix) /\ DigitsValue(ending.prefix) > ending.junk) =>
        outcome = "LengthMismatch"

\* C7: under RDW framing a call ends the sequence only by reading a zero
\* Record Descriptor Word: it has read those four bytes and nothing beyond.
C7_RdwEndsOnlyOnSentinel ==
    (phase = "ready" /\ framing = "rdw" /\ calls >= 1 /\ outcome = "stop") =>
        /\ pos = start_pos + RDW_LENGTH
        /\ SubSeq(file, start_pos + 1, pos) = Sentinel

\* C8: a __next__ call of the plain iterator ends the sequence exactly when
\* no byte is left; with 1 to 19 bytes left (a partial mti or bitmap) it
\* fails with EndOfStream.
C8_PlainEndsOnlyAtEndOfFile ==
    (phase = "ready" /\ framing = "plain" /\ calls >= 1) =>
        LET remaining == Len(file) - start_pos
        IN  /\ outcome = "stop" <=> remaining = 0
            /\ remaining \in 1..(MTI_LENGTH + BITMAP_LENGTH - 1) => outcome = "EndOfStream"

C8_Witness ==
    /\ phase = "ready" /\ framing = "plain" /\ calls >= 2
    /\ Len(file) - start_pos \in (MTI_LENGTH + 1)..(MTI_LENGTH + BITMAP_LENGTH - 1)
    /\ outcome = "EndOfStream"

LeadingSentinel == Len(file) >= RDW_LENGTH /\ SubSeq(file, 1, RDW_LENGTH) = <<0, 0, 0, 0>>

\* C9: when the first four bytes an RDW iterator reads are zero, the first
\* call ends the sequence with no message returned, whatever follows, and no
\* byte after the zero word has been read.
C9_LeadingZeroWordEnds ==
    (phase = "ready" /\ framing = "rdw" /\ calls = 1 /\ LeadingSentinel) =>
        /\ outcome = "stop"
        /\ emitted = <<>>
        /\ pos = RDW_LENGTH
        /\ high = RDW_LENGTH

C9_Witness ==
    /\ phase = "ready" /\ framing = "rdw" /\ calls = 1 /\ LeadingSentinel
    /\ Len(file) > RDW_LENGTH /\ outcome = "stop"

\* C10: an RDW __next__ call with fewer than four bytes left for the Record
\* Descriptor Word fails with EndOfStream: it neither ends the sequence nor
\* returns a message.
C10_ShortRdwIsEndOfStream ==
    (phase = "ready" /\ framing = "rdw" /\ calls >= 1 /\ Len(file) - start_pos < RDW_LENGTH) =>
        /\ outcome = "EndOfStream"
        /\ Len(emitted) < calls

C10_Witness ==
    /\ phase = "ready" /\ framing = "rdw" /\ ending.kind = "clean"
    /\ Len(stream) >= 1 /\ Len(emitted) = Len(stream)
    /\ calls = Len(stream) + 1 /\ start_pos = Len(file) /\ outcome = "EndOfStream"

BadFieldType(config) ==
    \E k \in DOMAIN config : config[k].field_type \notin {"FIXED", "LLVAR", "LLLVAR"}

\* C11: constructing an iterator, or the permissive reader, from a
\* configuration that holds a field of unknown type fails with
\* InvalidFieldSpec, wherever that field stands in the configuration: no byte
\* of the source has been read and no object exists to be called.
C11_UnknownFieldTypeFailsConstruction ==
    (phase # "new" /\ BadFieldType(bit_config)) =>
        /\ phase = "failed"
        /\ outcome = "InvalidFieldSpec"
        /\ pos = 0 /\ high = 0
        /\ readers = <<>>
        /\ calls = 0 /\ emitted = <<>> /\ data_elements = None

C11_Witness ==
    /\ phase = "failed" /\ framing = "permissive" /\ Len(file) > 0
    /\ \E k \in DOMAIN bit_config :
          /\ bit_config[k].field_type \notin {"FIXED", "LLVAR", "LLLVAR"}
          /\ k < MaxBit(bit_config)

Ascending(s) == \A i \in 1..(Len(s) - 1) : s[i] < s[i + 1]

\* C12: decoding the 16-byte bitmap that has exactly the bits of a set F of
\* field numbers of 1..128 set returns the members of F, each once, in
\* strictly ascending order (either decoder).
C12_BitmapRoundTrip ==
    decoded # None =>
        LET s == decoded[1].set_bits
        IN  /\ Ascending(s)
            /\ {s[i] : i \in DOMAIN s} = field_set
            /\ Len(s) = Cardinality(field_set)

C12_Witness ==
    /\ decoded # None /\ decoded[1].by = "optimized"
    /\ field_set = {8, 9}
    /\ decoded[1].set_bits = <<8, 9>>

\* C13: _StrictBinaryIO.read(n), n >= 0, returns the next n bytes of the
\* source, or fails with EndOfStream when fewer than n bytes remain; what it
\* returns is never of another length than n.
C13_StrictReadExactOrEndOfStream ==
    (outcome \in {"returned", "EndOfStream"}) =>
        /\ (outcome = "EndOfStream") <=> (Len(file) - start_pos < read_size)
        /\ outcome = "EndOfStream" => read_data = None
        /\ outcome = "returned" =>
              /\ read_data = Some(SubSeq(file, start_pos + 1, start_pos + read_size))
              /\ Len(read_data[1]) = read_size

C13_Witness ==
    /\ outcome = "EndOfStream" /\ calls >= 2
    /\ Len(file) - start_pos > 0 /\ Len(file) - start_pos < read_size

\* C18: _is_end_of_file leaves the cursor where it was before the call,
\* whether it reports end-of-file or not, and it reports end-of-file exactly
\* when no byte remains at that position.
C18_LookaheadRestoresCursor ==
    (outcome \in {"eof", "more"}) =>
        /\ pos = start_pos
        /\ (outcome = "eof") <=> (Len(file) - start_pos = 0)

C18_Witness ==
    /\ outcome = "eof" /\ start_pos > 0 /\ pos = start_pos /\ high = Len(file)

\* Where the bytes written for field n of message d begin among its fields
FieldOffset(config, d, n) ==
    Len(FieldsFrom(config, [d EXCEPT !.bits = {m \in d.bits : m < n}], 1))

\* The first read_data_elements call has been made on a source that holds
\* the first ending.cut bytes of the fields of message stream[1], whose set
\* bits all lie within the reader index
CutFieldsRead ==
    /\ phase = "ready" /\ framing = "permissive" /\ ending.kind = "cut" /\ calls = 1
    /\ stream[1].bits \subseteq 1..MaxBit(bit_config)

C15_ExhaustedIsAbsorbing ==
    [][(phase = "ready" /\ framing \in Framings /\ outcome = "stop") =>
          (outcome' = "stop" /\ emitted' = emitted)]_vars

\* The failures a __next__ call can end with
Failures == {"EndOfStream", "InvalidLengthPrefix", "LengthMismatch"}

\* C19: after a __next__ call of an iterator has failed, no later call on it
\* returns a message: nothing is decoded from the bytes that follow the
\* point of the failure.
C19_NoResynchronization ==
    [][(phase = "ready" /\ framing \in Framings /\ outcome \in Failures) =>
          emitted' = emitted]_vars

\* The payload length a length prefix declares: its digits read in base 10
DeclaredLength(prefix) ==
    LET Digit(b) == b \in 48..57 IN DigitsValue(SelectSeq(prefix, Digit))

\* Where IpmMessageIterator.__next__ began in the last call
MessageStart == IF framing = "rdw" THEN start_pos + 4 ELSE start_pos

RECURSIVE FieldsWalk(_, _, _)
\* From field n on, with field n expected at offset off of the source: the
\* offset after the last field of message m when every field is as C16 has
\* it, and -1 when some field is not.
FieldsWalk(m, n, off) ==
    IF n > MaxBit(bit_config) THEN off
    ELSE IF ~(n \in DOMAIN bit_config /\ BitOn(m.bitmap, n))
    THEN IF m.data_elements[n] = None THEN FieldsWalk(m, n + 1, off) ELSE -1
    ELSE IF m.data_elements[n] = None THEN -1
    ELSE LET v == m.data_elements[n][1]
             pl == PrefixLength(bit_config, n)
         IN  IF bit_config[n].field_type = "FIXED"
             THEN IF /\ Len(v) = bit_config[n].field_length
                     /\ v = SubSeq(file, off + 1, off + Len(v))
                  THEN FieldsWalk(m, n + 1, off + bit_config[n].field_length)
                  ELSE -1
             ELSE IF /\ DeclaredLength(SubSeq(file, off + 1, off + pl)) = Len(v)
                     /\ v = SubSeq(file, off + pl + 1, off + pl + Len(v))
                  THEN FieldsWalk(m, n + 1, off + pl + Len(v))
                  ELSE -1

\* C16: a successful IpmMessageIterator.__next__ leaves the cursor 20 bytes
\* plus the bytes of the fields that are set and configured after where it
\* began: L for a FIXED field of length L, whose value is the L bytes at its
\* place, the prefix length plus the declared payload length for an
\* LLVAR/LLLVAR field; a field whose bit is unset takes no byte and is
\* absent.
C16_CursorAdvance ==
    (phase = "ready" /\ framing \in Framings /\ outcome = "message") =>
        pos = FieldsWalk(emitted[Len(emitted)], 1, MessageStart + 20)

C16_Witness ==
    /\ phase = "ready" /\ framing = "plain" /\ outcome = "message" /\ calls = 1
    /\ LET m == emitted[Len(emitted)]
       IN  /\ \E n \in DOMAIN bit_config :
                 /\ bit_config[n].field_type = "FIXED"
                 /\ m.data_elements[n] # None /\ Len(m.data_elements[n][1]) = 2
           /\ \E n \in VarFields(bit_config) :
                 m.data_elements[n] # None /\ Len(m.data_elements[n][1]) = 1
           /\ \E n \in DOMAIN bit_config : ~BitOn(m.bitmap, n)
           /\ pos = 20 + 2 + 2 + 1

\* C17: BlockedReader.read(n) pulls blocks of the underlying source only
\* until its buffer holds n unread bytes: when the source's blocks can supply
\* the next n logical bytes the call returns exactly those, and the
\* underlying source has been read no further than the block that holds the
\* last of them.
C17_PullsOnlyWhatIsNeeded ==
    last_read # None =>
        LET r == last_read[1]
            last == r.before + r.total_bytes
            logical == Unwrapped(blk_file, block_size)
            needed == (last + (block_size - 2) - 1) \div (block_size - 2)
        IN  Len(logical) >= last =>
                /\ r.bytes = SubSeq(logical, r.before + 1, last)
                /\ blk_pos <= needed * block_size

\* IpmMessageIterator._read_data_elements run on the bytes, from the position
\* and with the bitmap of the last read_data_elements call
StrictOnSame ==
    ReadDataElements(file, CreateReaderIndex(bit_config).index, start_pos, bitmap_arg)

PermissiveCalled == phase = "ready" /\ framing = "permissive" /\ calls >= 1

\* C20: whenever the strict field-reading step succeeds on a configuration,
\* a bitmap and a source, the permissive reader run on the same bytes from
\* the same position returns the same list of elements and leaves the cursor
\* at the same position.
C20_PermissiveAgreesWithStrict ==
    (PermissiveCalled /\ StrictOnSame.err = "none") =>
        /\ outcome = "none"
        /\ data_elements = Some(StrictOnSame.elements)
        /\ pos = StrictOnSame.pos

C20_Witness ==
    /\ PermissiveCalled /\ StrictOnSame.err = "none" /\ outcome = "none"
    /\ pos > start_pos
    /\ \E n \in VarFields(bit_config) :
          data_elements[1][n] # None /\ Len(data_elements[1][n][1]) >= 1
    /\ \E n \in DOMAIN bit_config :
          bit_config[n].field_type = "FIXED" /\ data_elements[1][n] # None

====
